---- MODULE Spec2Model ----
(***************************************************************************)
(* Model of src/src/generic/helpers.py: the DataCatalog class              *)
(* (scan_directory, find_files, get_path, summary, load_file) over a small *)
(* file system under root/data, and the plot_df cache.                     *)
(*                                                                         *)
(* Strings whose characters matter (file names, extensions, basenames,     *)
(* search patterns) are sequences of one-character strings.  A catalog     *)
(* (pandas DataFrame built from a list of dicts) is the sequence of its    *)
(* rows; the DataFrame without rows has no columns.  The columns size_mb   *)
(* and modified (taken from stat()) are not modelled.                      *)
(***************************************************************************)
EXTENDS Integers, Sequences, FiniteSets, TLC

VARIABLES root, catalog, scanned_types, dirs, fs, ret,
          plot_files, renders, writes, history,
          folders, handlers, logger_level, logger_calls, pret

vars == <<root, catalog, scanned_types, dirs, fs, ret,
          plot_files, renders, writes, history,
          folders, handlers, logger_level, logger_calls, pret>>

catalogVars == <<root, catalog, scanned_types, dirs, fs, ret>>
plotVars == <<plot_files, renders, writes, history>>
persistVars == <<folders, handlers, logger_level, logger_calls, pret>>

\* ---------------------------------------------------------------- bounds
MaxFiles == 2
MaxCalls == 3
MaxLoggerCalls == 2

\* ------------------------------------------------------- character strings
\* str.lower() on the letters that occur in the model
Lower(c) ==
    CASE c = "A" -> "a"
      [] c = "B" -> "b"
      [] c = "C" -> "c"
      [] c = "S" -> "s"
      [] c = "V" -> "v"
      [] OTHER -> c

LowerStr(s) == [i \in 1..Len(s) |-> Lower(s[i])]

\* str.rfind('.') as a 1-based index, 0 when there is no dot
RFindDot(name) ==
    LET idx == {i \in 1..Len(name) : name[i] = "."}
    IN IF idx = {} THEN 0 ELSE CHOOSE i \in idx : \A j \in idx : j <= i

\* pathlib PurePath.suffix: the last dot and what follows it, unless the dot
\* is the first or the last character of the name
Suffix(name) ==
    LET i == RFindDot(name)
    IN IF 1 < i /\ i < Len(name) THEN SubSeq(name, i, Len(name)) ELSE <<>>

\* pathlib PurePath.stem
Stem(name) ==
    LET i == RFindDot(name)
    IN IF 1 < i /\ i < Len(name) THEN SubSeq(name, 1, i - 1) ELSE name

\* str.startswith('.')
StartsWithDot(name) == Len(name) > 0 /\ name[1] = "."

IsPrefix(p, s) == Len(p) <= Len(s) /\ SubSeq(s, 1, Len(p)) = p

\* ------------------------------------------------------------ file system
csv == <<".", "c", "s", "v">>
CSV == <<".", "C", "S", "V">>
txt == <<".", "t", "x", "t">>
h5 == <<".", "h", "5">>
xlsx == <<".", "x", "l", "s", "x">>
xls == <<".", "x", "l", "s">>
json == <<".", "j", "s", "o", "n">>
pkl == <<".", "p", "k", "l">>
parquet == <<".", "p", "a", "r", "q", "u", "e", "t">>

raw == <<"raw">>
raw_sub == <<"raw", "sub">>
interim == <<"interim">>
processed == <<"processed">>
external == <<"external">>

\* directories that may exist under root/data
DirUniverse == {raw, raw_sub}

\* directory entries that may exist under root/data, in the order rglob
\* yields them (is_file = FALSE: a directory whose name looks like a file)
EntryOrder == <<
    [parts |-> raw,     name |-> <<"a", "b", "c">> \o csv, is_file |-> TRUE],
    [parts |-> raw,     name |-> <<"A", "B", "C">> \o CSV, is_file |-> TRUE],
    [parts |-> raw,     name |-> <<".", "a">> \o csv,      is_file |-> TRUE],
    [parts |-> raw,     name |-> <<"d">> \o csv,           is_file |-> FALSE],
    [parts |-> raw,     name |-> <<"d">> \o h5,            is_file |-> TRUE],
    [parts |-> raw_sub, name |-> <<"a", "b", "c">> \o csv, is_file |-> TRUE],
    [parts |-> raw_sub, name |-> <<"n">> \o txt,           is_file |-> TRUE] >>

EntryUniverse == {EntryOrder[i] : i \in 1..Len(EntryOrder)}

\* Path.exists() of root/data/<label>
Exists(label) == label \in dirs

\* Path.rglob('*'): every entry below root/data/<label>, at any depth
RGlob(label) ==
    SelectSeq(EntryOrder, LAMBDA e : e \in fs /\ IsPrefix(label, e.parts))


\* ---------------------------------------------------------- scan_directory
DefaultSubdirs == <<raw, processed, interim, external>>
DefaultFileTypes == <<csv, xlsx, json, pkl, parquet, h5, xls>>

\* Python's "x in list"
InList(x, list) == \E i \in 1..Len(list) : list[i] = x

\* "subdirs or [...]", "file_types or [...]": None and the empty list are
\* both written <<>> and both select the default
OrDefault(arg, default) == IF arg = <<>> THEN default ELSE arg

\* the condition of the inner loop of scan_directory
FileFilter(e, file_types) ==
    /\ e.is_file
    /\ InList(LowerStr(Suffix(e.name)), file_types)
    /\ ~StartsWithDot(e.name)
    /\ e.name # <<".", "g", "i", "t", "k", "e", "e", "p">>

\* str(file_path) and str(file_path.relative_to(self.root))
PathOf(e) == [root |-> root, parts |-> <<"data">> \o e.parts, name |-> e.name]
RelPathOf(e) == [parts |-> <<"data">> \o e.parts, name |-> e.name]

\* the dict appended for one file
MakeRow(subdir, e) ==
    [basename      |-> Stem(e.name),
     filename      |-> e.name,
     directory     |-> subdir,
     path          |-> PathOf(e),
     extension     |-> Suffix(e.name),
     relative_path |-> RelPathOf(e)]

\* the rows one iteration of the outer loop appends
SubdirRows(subdir, file_types) ==
    IF ~Exists(subdir) THEN <<>>
    ELSE LET hits == SelectSeq(RGlob(subdir),
                               LAMBDA e : FileFilter(e, file_types))
         IN [i \in 1..Len(hits) |-> MakeRow(subdir, hits[i])]

RECURSIVE ScanFrom(_, _, _)
ScanFrom(subdirs, file_types, i) ==
    IF i > Len(subdirs) THEN <<>>
    ELSE SubdirRows(subdirs[i], file_types)
            \o ScanFrom(subdirs, file_types, i + 1)

\* variant: the rows are appended to the table already held
NewCatalog_Append(old, catalog_data) == old \o catalog_data

\* catalog_data = [] ... self.catalog = pd.DataFrame(catalog_data)
NewCatalog(old, catalog_data) == catalog_data

ScanResult(subdirs, file_types) ==
    NewCatalog(catalog, ScanFrom(OrDefault(subdirs, DefaultSubdirs),
                                 OrDefault(file_types, DefaultFileTypes), 1))

\* ------------------------------------------------------ DataFrame helpers
\* pd.DataFrame(list of dicts): the columns are the keys of the dicts, so a
\* frame built from no rows (and pd.DataFrame()) has no columns
Columns(cat) ==
    IF cat = <<>> THEN {}
    ELSE {"basename", "filename", "directory", "path", "extension",
          "relative_path"}

\* variant: the table always counts as empty
Empty_Always(cat) == TRUE

\* DataFrame.empty
Empty(cat) == Len(cat) = 0

NoPath == [root |-> "", parts |-> <<>>, name |-> <<>>]
NoRet == [op |-> "none"]

\* ---------------------------------------------------------------- get_path
GetPath(cat, basename) ==
    IF "basename" \notin Columns(cat)
    THEN [raised |-> "KeyError", returns |-> "raise", out |-> NoPath,
          printed |-> "none"]
    ELSE LET matches == SelectSeq(cat, LAMBDA r : r.basename = basename)
         IN IF Empty(matches)
            THEN [raised |-> "none", returns |-> "None", out |-> NoPath,
                  printed |-> "not_found"]
            ELSE IF Len(matches) > 1
            THEN [raised |-> "none", returns |-> "None", out |-> NoPath,
                  printed |-> "ambiguous"]
            ELSE [raised |-> "none", returns |-> "path",
                  out |-> matches[1].path, printed |-> "none"]

\* --------------------------------------------------------------- load_file
\* variant: the .h5 branch reads without looking for 'key', and the chain
\* ends in read_csv instead of the error
Dispatch_NoChecks(ext, has_key) ==
    IF ext = csv THEN [raised |-> "none", loader |-> "read_csv"]
    ELSE IF InList(ext, <<xlsx, xls>>)
    THEN [raised |-> "none", loader |-> "read_excel"]
    ELSE IF ext = json THEN [raised |-> "none", loader |-> "read_json"]
    ELSE IF ext = pkl THEN [raised |-> "none", loader |-> "read_pickle"]
    ELSE IF ext = parquet THEN [raised |-> "none", loader |-> "read_parquet"]
    ELSE IF ext = h5 THEN [raised |-> "none", loader |-> "read_hdf"]
    ELSE [raised |-> "none", loader |-> "read_csv"]

\* the if/elif chain on path.suffix.lower()
Dispatch(ext, has_key) ==
    IF ext = csv THEN [raised |-> "none", loader |-> "read_csv"]
    ELSE IF InList(ext, <<xlsx, xls>>)
    THEN [raised |-> "none", loader |-> "read_excel"]
    ELSE IF ext = json THEN [raised |-> "none", loader |-> "read_json"]
    ELSE IF ext = pkl THEN [raised |-> "none", loader |-> "read_pickle"]
    ELSE IF ext = parquet THEN [raised |-> "none", loader |-> "read_parquet"]
    ELSE IF ext = h5
    THEN IF ~has_key THEN [raised |-> "ValueError_key", loader |-> "none"]
         ELSE [raised |-> "none", loader |-> "read_hdf"]
    ELSE [raised |-> "ValueError_unsupported", loader |-> "none"]

LoadFile(cat, basename, has_key) ==
    LET p == GetPath(cat, basename)
    IN IF p.raised # "none"
       THEN [raised |-> p.raised, loader |-> "none", printed |-> p.printed]
       ELSE IF p.returns # "path"
       THEN [raised |-> "FileNotFoundError", loader |-> "none",
             printed |-> p.printed]
       ELSE LET d == Dispatch(LowerStr(Suffix(p.out.name)), has_key)
            IN [raised |-> d.raised, loader |-> d.loader,
                printed |-> p.printed]

\* -------------------------------------------------------------- find_files
\* re.search(pat, s, re.IGNORECASE), which Series.str.contains applies with
\* its default regex=True: a "." of the pattern matches any character, every
\* other character of the model's alphabet matches itself
RegexMatchAt(pat, s, i) ==
    \A j \in 1..Len(pat) :
        pat[j] = "." \/ Lower(pat[j]) = Lower(s[i + j - 1])

StrContains(s, pat) ==
    \E i \in 1..(Len(s) - Len(pat) + 1) : RegexMatchAt(pat, s, i)

FindMask(r, pattern) ==
    StrContains(r.basename, pattern) \/ StrContains(r.filename, pattern)

\* ----------------------------------------------------------------- summary
\* variant: grouping by directory alone
GroupKey_DirectoryOnly(r) == <<r.directory, <<>>>>

GroupKey(r) == <<r.directory, r.extension>>

\* groupby(['directory', 'extension']) with 'filename': 'count'
RECURSIVE GroupCount(_, _, _)
GroupCount(cat, i, acc) ==
    IF i > Len(cat) THEN acc
    ELSE LET k == GroupKey(cat[i])
         IN GroupCount(cat, i + 1,
                IF k \in DOMAIN acc THEN [acc EXCEPT ![k] = @ + 1]
                ELSE acc @@ (k :> 1))

NoGroups == [k \in {} |-> 0]

\* ------------------------------------------------------------ input domains
SubdirArgs == { <<>>, <<raw, raw>>, <<raw, raw_sub>>, <<interim, raw_sub>> }
FileTypeArgs == { <<>>, <<CSV>>, <<csv, txt>> }
BasenameArgs == { <<"a", "b", "c">>, <<"A", "B", "C">>, <<"n">>, <<"d">> }
PatternArgs == { <<"B", "C">>, <<"a", ".", "c">>, <<"n", ".">> }

\* ------------------------------------------------------------------ actions
\* DataCatalog.scan_directory(subdirs, file_types)
scan_directory(subdirs, file_types) ==
    /\ catalog' = ScanResult(subdirs, file_types)
    /\ scanned_types' = OrDefault(file_types, DefaultFileTypes)
    /\ ret' = [op |-> "scan_directory", subdirs |-> subdirs,
               file_types |-> file_types, raised |-> "none",
               prev_rows |-> Len(catalog)]
    /\ UNCHANGED <<root, dirs, fs, plotVars, persistVars>>

\* DataCatalog.find_files(pattern)
find_files(pattern) ==
    LET cat == IF Empty(catalog) THEN ScanResult(<<>>, <<>>) ELSE catalog
    IN /\ catalog' = cat
       /\ scanned_types' =
            IF Empty(catalog) THEN DefaultFileTypes ELSE scanned_types
       /\ ret' = IF "basename" \notin Columns(cat)
                 THEN [op |-> "find_files", pattern |-> pattern,
                       raised |-> "KeyError", out |-> <<>>,
                       was_empty |-> Empty(catalog)]
                 ELSE [op |-> "find_files", pattern |-> pattern,
                       raised |-> "none",
                       out |-> SelectSeq(cat,
                                  LAMBDA r : FindMask(r, pattern)),
                       was_empty |-> Empty(catalog)]
       /\ UNCHANGED <<root, dirs, fs, plotVars, persistVars>>

\* DataCatalog.get_path(basename)
get_path(basename) ==
    LET r == GetPath(catalog, basename)
    IN /\ ret' = [op |-> "get_path", basename |-> basename,
                  raised |-> r.raised, returns |-> r.returns,
                  out |-> r.out, printed |-> r.printed]
       /\ UNCHANGED <<root, catalog, scanned_types, dirs, fs, plotVars, persistVars>>

\* DataCatalog.summary()
summary ==
    LET cat == IF Empty(catalog) THEN ScanResult(<<>>, <<>>) ELSE catalog
    IN /\ catalog' = cat
       /\ scanned_types' =
            IF Empty(catalog) THEN DefaultFileTypes ELSE scanned_types
       /\ ret' = [op |-> "summary", raised |-> "none",
                  out |-> IF Empty(cat) THEN NoGroups
                          ELSE GroupCount(cat, 1, NoGroups),
                  was_empty |-> Empty(catalog)]
       /\ UNCHANGED <<root, dirs, fs, plotVars, persistVars>>

\* DataCatalog.load_file(basename, **kwargs); has_key: 'key' in kwargs
load_file(basename, has_key) ==
    LET r == LoadFile(catalog, basename, has_key)
    IN /\ ret' = [op |-> "load_file", basename |-> basename,
                  has_key |-> has_key, raised |-> r.raised,
                  loader |-> r.loader, printed |-> r.printed]
       /\ UNCHANGED <<root, catalog, scanned_types, dirs, fs, plotVars, persistVars>>

\* The file system under root/data changes between calls (the catalog only
\* reads it).
CreateEntry(e) ==
    /\ e \notin fs
    /\ e.parts \in dirs
    /\ Cardinality(fs) < MaxFiles
    /\ fs' = fs \cup {e}
    /\ ret' = NoRet
    /\ UNCHANGED <<root, catalog, scanned_types, dirs, plotVars, persistVars>>

DeleteEntry(e) ==
    /\ e \in fs
    /\ fs' = fs \ {e}
    /\ ret' = NoRet
    /\ UNCHANGED <<root, catalog, scanned_types, dirs, plotVars, persistVars>>

MkDir(d) ==
    /\ d \notin dirs
    /\ Len(d) > 1 => SubSeq(d, 1, Len(d) - 1) \in dirs
    /\ dirs' = dirs \cup {d}
    /\ ret' = NoRet
    /\ UNCHANGED <<root, catalog, scanned_types, fs, plotVars, persistVars>>

RmDir(d) ==
    /\ d \in dirs
    /\ \A e \in fs : ~IsPrefix(d, e.parts)
    /\ \A x \in dirs : x = d \/ ~IsPrefix(d, x)
    /\ dirs' = dirs \ {d}
    /\ ret' = NoRet
    /\ UNCHANGED <<root, catalog, scanned_types, fs, plotVars, persistVars>>


\* ----------------------------------------------------------------- plot_df
\* destinations passed as save_to_path; "" stands for the falsy values
\* (None, the default, and the empty string)
NoDest == ""
PlotDests == {"fig1.png", "fig2.png"}

ReadFromFile == "Read From File"
SavedToFile == "Saved to File"
NotSaved == "graph not saved to file..."

\* variant: the cache check never finds the file
PathExists_Never(p) == FALSE

\* os.path.exists(save_to_path)
PathExists(p) == p \in plot_files

\* plt.savefig(save_to_path)
SaveFig(p) == plot_files \cup {p}

\* plot_df(data, cols_list, save_to_path): renders counts the calls of
\* data[cols_list].plot, writes the calls of plt.savefig; history keeps, per
\* destination, the returned status and whether a file was there at the call
plot_df(save_to_path) ==
    /\ Len(history[save_to_path]) < MaxCalls
    /\ IF save_to_path # NoDest
       THEN IF PathExists(save_to_path)
            THEN /\ history' = [history EXCEPT ![save_to_path] =
                        Append(@, [status |-> ReadFromFile,
                                   existed |-> save_to_path \in plot_files])]
                 /\ UNCHANGED <<plot_files, renders, writes>>
            ELSE /\ renders' = [renders EXCEPT ![save_to_path] = @ + 1]
                 /\ writes' = [writes EXCEPT ![save_to_path] = @ + 1]
                 /\ plot_files' = SaveFig(save_to_path)
                 /\ history' = [history EXCEPT ![save_to_path] =
                        Append(@, [status |-> SavedToFile,
                                   existed |-> save_to_path \in plot_files])]
       ELSE /\ renders' = [renders EXCEPT ![save_to_path] = @ + 1]
            /\ history' = [history EXCEPT ![save_to_path] =
                        Append(@, [status |-> NotSaved, existed |-> FALSE])]
            /\ UNCHANGED <<plot_files, writes>>
    /\ UNCHANGED <<catalogVars, persistVars>>

\* ------------------------------------------------- save_joblib, get_logger
\* datetime.now().strftime('%Y_%m_%d_%H_%M_%S'): zero-padded decimal fields
Digit(n) == <<"0", "1", "2", "3", "4", "5", "6", "7", "8", "9">>[n + 1]
Pad2(n) == <<Digit(n \div 10), Digit(n % 10)>>
Pad4(n) == <<Digit(n \div 1000), Digit((n \div 100) % 10)>> \o Pad2(n % 100)

Strftime(now) ==
    Pad4(now.Y) \o <<"_">> \o Pad2(now.mo) \o <<"_">> \o Pad2(now.d)
        \o <<"_">> \o Pad2(now.h) \o <<"_">> \o Pad2(now.mi)
        \o <<"_">> \o Pad2(now.s)

\* str.rfind(c) as a 1-based index, 0 when c does not occur
RFind(p, c) ==
    LET idx == {i \in 1..Len(p) : p[i] = c}
    IN IF idx = {} THEN 0 ELSE CHOOSE i \in idx : \A j \in idx : j <= i

\* variant: split at the first dot instead of the last
SplitExt_FirstDot(p) ==
    LET idx == {i \in 1..Len(p) : p[i] = "."}
        dotIndex == IF idx = {} THEN 0
                    ELSE CHOOSE i \in idx : \A j \in idx : i <= j
    IN IF dotIndex > 1
       THEN [root |-> SubSeq(p, 1, dotIndex - 1),
             ext |-> SubSeq(p, dotIndex, Len(p))]
       ELSE [root |-> p, ext |-> <<>>]

\* os.path.splitext: split at the last dot of the last path component,
\* unless that component has nothing but dots before it
SplitExt(p) ==
    LET sepIndex == RFind(p, "/")
        dotIndex == RFind(p, ".")
    IN IF /\ dotIndex > sepIndex
          /\ \E k \in (sepIndex + 1)..(dotIndex - 1) : p[k] # "."
       THEN [root |-> SubSeq(p, 1, dotIndex - 1),
             ext |-> SubSeq(p, dotIndex, Len(p))]
       ELSE [root |-> p, ext |-> <<>>]

\* os.path.join(a, b)
Join(a, b) ==
    IF Len(b) > 0 /\ b[1] = "/" THEN b
    ELSE IF a = <<>> \/ a[Len(a)] = "/" THEN a \o b
    ELSE a \o <<"/">> \o b

\* "if add_timestamp: ... file_name = root + '_' + current_timestamp + ext"
TimestampName(file_name, add_timestamp, now) ==
    IF add_timestamp
    THEN LET sp == SplitExt(file_name)
         IN sp.root \o <<"_">> \o Strftime(now) \o sp.ext
    ELSE file_name

\* the directory a file of this path is created in
DirName(path) == SubSeq(path, 1, RFind(path, "/") - 1)

\* open(full_path, 'w'/'a') succeeds only in an existing directory
CanCreate(path) == DirName(path) \in folders

LoggerName == "Jupyter Notebook"
DEBUG == 10
ERROR == 40
NOTSET == 0
WARNING == 30

FolderArgs == { <<"m">>, <<"x">> }
SaveNameArgs == { <<"m", ".", "p", "k", "l">>, <<".", "p", "k", "l">>,
                  <<"a", ".", "b", ".", "g", "z">>, <<"r", "u", "n">>,
                  <<"a", ".">>, <<"s", ".", "d", "/", "f">> }
LogNameArgs == { <<"r", ".", "l", "o", "g">>, <<"r", "u", "n">> }
LevelArgs == {DEBUG, ERROR}
NowArgs == { [Y |-> 2026, mo |-> 3, d |-> 9, h |-> 7, mi |-> 5, s |-> 0],
             [Y |-> 2023, mo |-> 12, d |-> 15, h |-> 14, mi |-> 30,
              s |-> 45] }

\* save_joblib(object, folder_path, file_name, add_timestamp); now is the
\* value datetime.now() returns during the call
save_joblib(folder_path, file_name, add_timestamp, now) ==
    LET name == TimestampName(file_name, add_timestamp, now)
        full_path == Join(folder_path, name)
    IN /\ pret' = [op |-> "save_joblib", folder_path |-> folder_path,
                   file_name |-> file_name, add_timestamp |-> add_timestamp,
                   now |-> now, path |-> full_path,
                   raised |-> IF CanCreate(full_path) THEN "none"
                              ELSE "FileNotFoundError",
                   wrote |-> CanCreate(full_path)]
       /\ UNCHANGED <<catalogVars, plotVars, folders, handlers,
                      logger_level, logger_calls>>

\* variant: the new handler replaces the ones set up before
AddHandler_Replace(hs, h) == <<h>>

\* logger.addHandler(handler): the handler list of the one logger object
\* logging.getLogger('Jupyter Notebook') returns
AddHandler(hs, h) == Append(hs, h)

\* get_logger(folder_path, file_name, logging_level, add_timestamp)
get_logger(folder_path, file_name, logging_level, add_timestamp, now) ==
    LET name == TimestampName(file_name, add_timestamp, now)
        full_path == Join(folder_path, name)
    IN /\ logger_calls < MaxLoggerCalls
       /\ logger_level' = logging_level
       /\ IF CanCreate(full_path)
          THEN /\ handlers' = AddHandler(handlers,
                        [path |-> full_path, level |-> logging_level])
               /\ logger_calls' = logger_calls + 1
          ELSE UNCHANGED <<handlers, logger_calls>>
       /\ pret' = [op |-> "get_logger", folder_path |-> folder_path,
                   file_name |-> file_name, add_timestamp |-> add_timestamp,
                   now |-> now, path |-> full_path,
                   raised |-> IF CanCreate(full_path) THEN "none"
                              ELSE "FileNotFoundError",
                   wrote |-> CanCreate(full_path),
                   logger |-> LoggerName]
       /\ UNCHANGED <<catalogVars, plotVars, folders>>

\* Logger.isEnabledFor(level): an unset level falls back to the root
\* logger's WARNING
IsEnabledFor(level) ==
    level >= (IF logger_level = NOTSET THEN WARNING ELSE logger_level)

\* Handler.handle: a handler emits the records that reach its own level
HandlerEmits(h, level) == level >= h.level

\* logger.info(...), logger.error(...) on the returned logger: written maps
\* every handler's file to the number of lines this message adds to it
log_message(level) ==
    /\ logger_calls >= 1
    /\ pret' = [op |-> "log", level |-> level,
                written |-> [p \in {handlers[i].path :
                                        i \in 1..Len(handlers)} |->
                    IF IsEnabledFor(level)
                    THEN Cardinality({i \in 1..Len(handlers) :
                            /\ handlers[i].path = p
                            /\ HandlerEmits(handlers[i], level)})
                    ELSE 0]]
    /\ UNCHANGED <<catalogVars, plotVars, folders, handlers, logger_level,
                   logger_calls>>

\* no logger set up yet; the folder "m" exists, "x" and "m/s.d" do not
InitPersistVars ==
    /\ folders = { <<"m">> }
    /\ handlers = <<>>
    /\ logger_level = NOTSET
    /\ logger_calls = 0
    /\ pret = [op |-> "none"]

\* ------------------------------------------------------------ specification
\* the directory sets a file system can hold: a directory needs its parent
DirSets ==
    {D \in SUBSET DirUniverse :
        \A d \in D : Len(d) > 1 => SubSeq(d, 1, Len(d) - 1) \in D}

\* no plot_df call yet; figure files may already exist
InitPlotVars ==
    /\ renders = [d \in PlotDests \cup {NoDest} |-> 0]
    /\ writes = [d \in PlotDests \cup {NoDest} |-> 0]
    /\ history = [d \in PlotDests \cup {NoDest} |-> <<>>]

\* DataCatalog.__init__ (root, empty catalog) over any file system
Init ==
    /\ root = "proj"
    /\ catalog = <<>>
    /\ scanned_types = <<>>
    /\ dirs \in DirSets
    /\ fs \in {F \in SUBSET EntryUniverse :
                 /\ Cardinality(F) <= MaxFiles
                 /\ \A e \in F : e.parts \in dirs}
    /\ ret = NoRet
    /\ plot_files = {}
    /\ InitPlotVars
    /\ InitPersistVars

Next ==
    \/ \E s \in SubdirArgs, t \in FileTypeArgs : scan_directory(s, t)
    \/ \E p \in PatternArgs : find_files(p)
    \/ \E b \in BasenameArgs : get_path(b)
    \/ summary
    \/ \E b \in BasenameArgs, k \in BOOLEAN : load_file(b, k)
    \/ \E e \in EntryUniverse : CreateEntry(e)
    \/ \E e \in EntryUniverse : DeleteEntry(e)
    \/ \E d \in DirUniverse : MkDir(d)
    \/ \E d \in DirUniverse : RmDir(d)

Spec == Init /\ [][Next]_vars

NextPlot == \E d \in PlotDests \cup {NoDest} : plot_df(d)

InitPlot ==
    /\ root = "proj"
    /\ catalog = <<>>
    /\ scanned_types = <<>>
    /\ dirs = {}
    /\ fs = {}
    /\ ret = NoRet
    /\ plot_files \in SUBSET PlotDests
    /\ InitPlotVars
    /\ InitPersistVars

SpecPlot == InitPlot /\ [][NextPlot]_vars

NextPersist ==
    \/ \E f \in FolderArgs, n \in SaveNameArgs, t \in BOOLEAN,
          now \in NowArgs : save_joblib(f, n, t, now)
    \/ \E f \in FolderArgs, n \in LogNameArgs, l \in LevelArgs,
          t \in BOOLEAN, now \in NowArgs : get_logger(f, n, l, t, now)
    \/ \E l \in LevelArgs : log_message(l)

InitPersist ==
    /\ root = "proj"
    /\ catalog = <<>>
    /\ scanned_types = <<>>
    /\ dirs = {}
    /\ fs = {}
    /\ ret = NoRet
    /\ plot_files = {}
    /\ InitPlotVars
    /\ InitPersistVars

SpecPersist == InitPersist /\ [][NextPersist]_vars


\* ============================================================== properties
\* number of rows of the table whose basename is b (exact comparison)
MatchCount(cat, b) == Cardinality({i \in 1..Len(cat) : cat[i].basename = b})

\* the arguments of the scan that ret reports, after defaulting
RetSubdirs == OrDefault(ret.subdirs, DefaultSubdirs)
RetFileTypes == OrDefault(ret.file_types, DefaultFileTypes)

\* e lies under some requested subdirectory that exists
UnderRequested(e, subdirs) ==
    \E i \in 1..Len(subdirs) :
        subdirs[i] \in dirs /\ IsPrefix(subdirs[i], e.parts)

RowsOfFile(cat, e) == {i \in 1..Len(cat) : cat[i].path = PathOf(e)}

\* C1: get_path returns a path iff exactly one row has the basename, and
\* then that row's path; zero matches report not-found, two or more report
\* ambiguous, both returning None; it never raises.
C1_GetPathTrichotomy ==
    ret.op = "get_path" =>
        LET n == MatchCount(catalog, ret.basename)
        IN /\ ret.raised = "none"
           /\ n = 1 => /\ ret.returns = "path"
                       /\ \E i \in 1..Len(catalog) :
                            /\ catalog[i].basename = ret.basename
                            /\ ret.out = catalog[i].path
           /\ n = 0 => ret.returns = "None" /\ ret.printed = "not_found"
           /\ n >= 2 => ret.returns = "None" /\ ret.printed = "ambiguous"

\* C2: after a scan every file under a requested, existing subdirectory
\* that passes the filter has exactly one row, whatever the list of
\* subdirectories (repeated or nested labels included).
C2_OneRowPerFile ==
    ret.op = "scan_directory" =>
        \A e \in fs :
            (UnderRequested(e, RetSubdirs) /\ FileFilter(e, RetFileTypes))
                => Cardinality(RowsOfFile(catalog, e)) = 1

\* C3: a file under a scanned subdirectory is in the table iff its extension
\* equals some allow-list entry when letter case is ignored on both sides,
\* its name does not start with "." and is not ".gitkeep"; subdirectories
\* that do not exist contribute no rows and no error.
C3_AllowListIgnoresCase ==
    ret.op = "scan_directory" =>
        /\ ret.raised = "none"
        /\ \A i \in 1..Len(catalog) : catalog[i].directory \in dirs
        /\ \A e \in fs :
            (e.is_file /\ UnderRequested(e, RetSubdirs)) =>
                ( RowsOfFile(catalog, e) # {}
                  <=> /\ \E j \in 1..Len(RetFileTypes) :
                            LowerStr(RetFileTypes[j])
                                = LowerStr(Suffix(e.name))
                      /\ ~StartsWithDot(e.name)
                      /\ e.name # <<".", "g", "i", "t", "k", "e", "e", "p">> )

\* the table holds, for every entry and label, as many rows as the label
\* occurs in subdirs when the entry is a file below that existing label
\* passing the filter, and none otherwise
TableIsScanOf(cat, subdirs, file_types) ==
    /\ \A i \in 1..Len(cat) :
          \E e \in fs, j \in 1..Len(subdirs) : cat[i] = MakeRow(subdirs[j], e)
    /\ \A e \in EntryUniverse, j \in 1..Len(subdirs) :
          Cardinality({i \in 1..Len(cat) : cat[i] = MakeRow(subdirs[j], e)})
            = IF /\ e \in fs
                 /\ subdirs[j] \in dirs
                 /\ IsPrefix(subdirs[j], e.parts)
                 /\ FileFilter(e, file_types)
              THEN Cardinality({k \in 1..Len(subdirs) : subdirs[k] = subdirs[j]})
              ELSE 0

C4_TableOfLastScan ==
    ret.op = "scan_directory" =>
        TableIsScanOf(catalog, RetSubdirs, RetFileTypes)

C4_RescanEqual ==
    (/\ ret.op = "scan_directory"
     /\ ret'.op = "scan_directory"
     /\ ret'.subdirs = ret.subdirs
     /\ ret'.file_types = ret.file_types) => catalog' = catalog

\* C4: after a scan the table is exactly what that call produces from its
\* arguments and the current file system (no row of an earlier scan is
\* left), and a second scan with the same arguments on the unchanged file
\* system leaves an equal table.
C4_LastScanOnly == [](C4_TableOfLastScan) /\ [][C4_RescanEqual]_vars

\* a scan replaced a larger, non-empty earlier table by a non-empty one
C4_Witness ==
    /\ ret.op = "scan_directory"
    /\ Len(catalog) >= 1
    /\ ret.prev_rows > Len(catalog)

\* C5: find_files on an empty table scans with the defaults first and, when
\* no row matches (also when that scan finds no file), returns an empty
\* result without raising.
C5_FindFilesNoMatch ==
    ret.op = "find_files" =>
        /\ ret.was_empty =>
              TableIsScanOf(catalog, DefaultSubdirs, DefaultFileTypes)
        /\ (\A i \in 1..Len(catalog) : ~FindMask(catalog[i], ret.pattern))
              => ret.raised = "none" /\ ret.out = <<>>

\* pat occurs in s as a literal substring, letter case ignored
LiteralContains(s, pat) ==
    \E i \in 1..(Len(s) - Len(pat) + 1) :
        \A j \in 1..Len(pat) : Lower(pat[j]) = Lower(s[i + j - 1])

\* C6: on a non-empty table find_files returns exactly the rows whose
\* basename or filename contains the pattern as a literal substring, case
\* ignored, in table order.
C6_LiteralSubstring ==
    (ret.op = "find_files" /\ catalog # <<>>) =>
        /\ ret.raised = "none"
        /\ ret.out = SelectSeq(catalog,
                LAMBDA r : \/ LiteralContains(r.basename, ret.pattern)
                           \/ LiteralContains(r.filename, ret.pattern))

\* C7: load_file raises the not-found error and calls no loader whenever
\* the basename has zero or at least two matching rows.
C7_LoadNotFound ==
    (ret.op = "load_file" /\ MatchCount(catalog, ret.basename) # 1) =>
        ret.raised = "FileNotFoundError" /\ ret.loader = "none"


\* the extensions the claim lists as having a loader
LoaderExts == <<csv, xlsx, xls, json, pkl, parquet, h5>>

\* C8: for a basename with exactly one row, load_file dispatches on the
\* lower-cased extension: outside the loader set it raises unsupported-format
\* and reads nothing; .h5 without 'key' raises the configuration error and
\* reads nothing; a file cataloged by a scan with the default allow-list
\* never raises unsupported-format, every default extension having a loader.
C8_LoadDispatch ==
    /\ \A i \in 1..Len(DefaultFileTypes), k \in BOOLEAN :
          Dispatch(DefaultFileTypes[i], k).raised # "ValueError_unsupported"
    /\ (ret.op = "load_file" /\ MatchCount(catalog, ret.basename) = 1) =>
          LET i == CHOOSE j \in 1..Len(catalog) :
                        catalog[j].basename = ret.basename
              ext == LowerStr(catalog[i].extension)
          IN /\ ~InList(ext, LoaderExts) =>
                    /\ ret.raised = "ValueError_unsupported"
                    /\ ret.loader = "none"
             /\ (ext = h5 /\ ~ret.has_key) =>
                    ret.raised = "ValueError_key" /\ ret.loader = "none"
             /\ (InList(ext, LoaderExts) /\ ~(ext = h5 /\ ~ret.has_key)) =>
                    ret.raised = "none" /\ ret.loader # "none"
             /\ scanned_types = DefaultFileTypes =>
                    ret.raised # "ValueError_unsupported"

\* a uniquely resolved file of a custom allow-list is refused
C8_Witness ==
    /\ ret.op = "load_file"
    /\ MatchCount(catalog, ret.basename) = 1
    /\ ret.raised = "ValueError_unsupported"

RECURSIVE SumOver(_, _)
SumOver(f, S) ==
    IF S = {} THEN 0
    ELSE LET k == CHOOSE x \in S : TRUE IN f[k] + SumOver(f, S \ {k})

\* C9: summary scans with the defaults when the table is empty; a table
\* still empty gives an empty result and no error; otherwise there is one
\* group per (directory, extension) pair of the table, each counting the
\* rows with that pair, and the counts add up to the number of rows.
C9_SummaryGroups ==
    ret.op = "summary" =>
        /\ ret.raised = "none"
        /\ ret.was_empty =>
              TableIsScanOf(catalog, DefaultSubdirs, DefaultFileTypes)
        /\ catalog = <<>> => DOMAIN ret.out = {}
        /\ catalog # <<>> =>
              /\ DOMAIN ret.out =
                    {<<catalog[i].directory, catalog[i].extension>> :
                        i \in 1..Len(catalog)}
              /\ \A k \in DOMAIN ret.out :
                    ret.out[k] =
                        Cardinality({i \in 1..Len(catalog) :
                            /\ catalog[i].directory = k[1]
                            /\ catalog[i].extension = k[2]})
              /\ SumOver(ret.out, DOMAIN ret.out) = Len(catalog)

\* a summary of several groups, one of them with more than one row
C9_Witness ==
    /\ ret.op = "summary"
    /\ Cardinality(DOMAIN ret.out) >= 2
    /\ \E k \in DOMAIN ret.out : ret.out[k] >= 2

\* C10: per destination, a first call made while no file is there renders
\* once, writes once and returns 'Saved to File'; every later call returns
\* 'Read From File' without rendering or writing; a call without destination
\* renders, writes nothing and returns the not-saved status.
C10_PlotCache ==
    /\ \A d \in PlotDests :
          LET h == history[d]
          IN /\ (Len(h) >= 1 /\ ~h[1].existed) =>
                    /\ h[1].status = SavedToFile
                    /\ renders[d] = 1
                    /\ writes[d] = 1
                    /\ d \in plot_files
             /\ (Len(h) >= 1 /\ h[1].existed) =>
                    /\ h[1].status = ReadFromFile
                    /\ renders[d] = 0
                    /\ writes[d] = 0
             /\ \A i \in 2..Len(h) : h[i].status = ReadFromFile
    /\ \A i \in 1..Len(history[NoDest]) : history[NoDest][i].status = NotSaved
    /\ renders[NoDest] = Len(history[NoDest])
    /\ writes[NoDest] = 0
    /\ NoDest \notin plot_files

\* three calls with one destination that had no file, and a call without
\* destination
C10_Witness ==
    /\ \E d \in PlotDests : Len(history[d]) >= 3 /\ ~history[d][1].existed
    /\ Len(history[NoDest]) >= 1


\* every returned get_logger call gave the same logger, and the logger
\* carries one handler per returned call
C11_HandlerCount ==
    /\ Len(handlers) = logger_calls
    /\ (pret.op = "get_logger" /\ pret.raised = "none") =>
          /\ pret.logger = LoggerName
          /\ Len(handlers) >= 1
          /\ handlers[Len(handlers)].path = pret.path

\* a returned get_logger call keeps every earlier handler and adds one
C11_HandlersAccumulate ==
    (pret'.op = "get_logger" /\ pret'.raised = "none"
        /\ logger_calls' # logger_calls) =>
        /\ Len(handlers') = Len(handlers) + 1
        /\ SubSeq(handlers', 1, Len(handlers)) = handlers

\* number of handlers on file p
HandlersOn(p) == Cardinality({i \in 1..Len(handlers) : handlers[i].path = p})

\* a message the logger accepts is written once per handler
C11_OncePerHandler ==
    (pret.op = "log" /\ IsEnabledFor(pret.level)) =>
        \A i \in 1..Len(handlers) :
            pret.written[handlers[i].path] = HandlersOn(handlers[i].path)

\* C11 as stated: every get_logger call returns the logger 'Jupyter
\* Notebook' and adds one file handler, keeping the earlier ones, so after n
\* calls there are n handlers, and each message logged afterwards is written
\* once per handler (twice into a file two handlers share).
C11_OneLinePerHandler ==
    /\ [](C11_HandlerCount /\ C11_OncePerHandler)
    /\ [][C11_HandlersAccumulate]_vars

\* a message the logger accepts is written once per handler whose own level
\* it reaches; a message below the logger's level is written nowhere
C11_OncePerReachedHandler ==
    pret.op = "log" =>
        \A i \in 1..Len(handlers) :
            pret.written[handlers[i].path] =
                IF pret.level >= logger_level
                THEN Cardinality({j \in 1..Len(handlers) :
                        /\ handlers[j].path = handlers[i].path
                        /\ handlers[j].level <= pret.level})
                ELSE 0

\* C11 amended: as stated, except that a message is written once per
\* handler whose level (the logging_level of the call that added it) does
\* not exceed the message's level.
C11_OneLinePerReachedHandler ==
    /\ [](C11_HandlerCount /\ C11_OncePerReachedHandler)
    /\ [][C11_HandlersAccumulate]_vars

\* two handlers on one file, and a message written to it twice
C11_Witness ==
    /\ pret.op = "log"
    /\ Len(handlers) = 2
    /\ handlers[1].path = handlers[2].path
    /\ pret.written[handlers[1].path] = 2


\* the decimal value of a digit string
RECURSIVE NumberOf(_)
NumberOf(ds) ==
    IF ds = <<>> THEN 0
    ELSE 10 * NumberOf(SubSeq(ds, 1, Len(ds) - 1))
            + (CHOOSE n \in 0..9 : Digit(n) = ds[Len(ds)])

IsDigits(ds) == \A i \in 1..Len(ds) : \E n \in 0..9 : Digit(n) = ds[i]

\* ts has the form YYYY_MM_DD_HH_MM_SS and shows the time now
IsTimestampOf(ts, now) ==
    /\ Len(ts) = 19
    /\ \A i \in {5, 8, 11, 14, 17} : ts[i] = "_"
    /\ IsDigits(SubSeq(ts, 1, 4)) /\ NumberOf(SubSeq(ts, 1, 4)) = now.Y
    /\ IsDigits(SubSeq(ts, 6, 7)) /\ NumberOf(SubSeq(ts, 6, 7)) = now.mo
    /\ IsDigits(SubSeq(ts, 9, 10)) /\ NumberOf(SubSeq(ts, 9, 10)) = now.d
    /\ IsDigits(SubSeq(ts, 12, 13)) /\ NumberOf(SubSeq(ts, 12, 13)) = now.h
    /\ IsDigits(SubSeq(ts, 15, 16)) /\ NumberOf(SubSeq(ts, 15, 16)) = now.mi
    /\ IsDigits(SubSeq(ts, 18, 19)) /\ NumberOf(SubSeq(ts, 18, 19)) = now.s

\* the last path component of name has an extension: a dot that follows
\* some character other than a dot
HasExtension(name) ==
    \E dot \in 1..Len(name) :
        /\ name[dot] = "."
        /\ \A k \in dot..Len(name) : name[k] # "/"
        /\ \E k \in 1..(dot - 1) :
              /\ name[k] # "."
              /\ \A j \in k..dot : name[j] # "/"

\* name = stem \o ext, split at the last extension of name
IsLastExtensionSplit(name, stem, ext) ==
    /\ name = stem \o ext
    /\ IF HasExtension(name)
       THEN /\ Len(ext) >= 1
            /\ ext[1] = "."
            /\ \A k \in 2..Len(ext) : ext[k] # "." /\ ext[k] # "/"
       ELSE ext = <<>>

C12_Destination ==
    pret.op \in {"save_joblib", "get_logger"} =>
        /\ IF pret.add_timestamp
           THEN \E k \in 0..Len(pret.file_name) :
                  LET stem == SubSeq(pret.file_name, 1, k)
                      ext == SubSeq(pret.file_name, k + 1,
                                    Len(pret.file_name))
                      pre == pret.folder_path \o <<"/">> \o stem \o <<"_">>
                  IN /\ IsLastExtensionSplit(pret.file_name, stem, ext)
                     /\ Len(pret.path) = Len(pre) + 19 + Len(ext)
                     /\ SubSeq(pret.path, 1, Len(pre)) = pre
                     /\ IsTimestampOf(SubSeq(pret.path, Len(pre) + 1,
                                             Len(pre) + 19), pret.now)
                     /\ SubSeq(pret.path, Len(pre) + 20, Len(pret.path))
                            = ext
           ELSE pret.path = pret.folder_path \o <<"/">> \o pret.file_name
        /\ pret.wrote <=> pret.raised = "none"
        /\ pret.wrote => DirName(pret.path) \in folders

C12_FolderNotCreated == folders' = folders

\* C12: with the timestamp option on, save_joblib and get_logger write to
\* folder/<stem>_<YYYY_MM_DD_HH_MM_SS><ext>, the file name being split at
\* its last extension and <ext> kept as it is (empty when there is none);
\* with the option off the file name is used unchanged; the destination is
\* the join of folder and final name, and no folder is ever created.
C12_TimestampedName == [](C12_Destination) /\ [][C12_FolderNotCreated]_vars

\* a name with two dots saved with a timestamp
C12_Witness ==
    /\ pret.op = "save_joblib"
    /\ pret.add_timestamp
    /\ pret.file_name = <<"a", ".", "b", ".", "g", "z">>
    /\ pret.wrote


\* C13: in every row of the table the extension is lowercase and starts
\* with a dot, also for a file whose extension has uppercase letters on
\* disk, so that summary() puts files that differ only in the letter case
\* of the extension into one (directory, extension) group.
C13_ExtensionLowercase ==
    /\ \A i \in 1..Len(catalog) :
          /\ Len(catalog[i].extension) >= 1
          /\ catalog[i].extension[1] = "."
          /\ catalog[i].extension = LowerStr(catalog[i].extension)
    /\ ret.op = "summary" =>
          \A i, j \in 1..Len(catalog) :
              (/\ catalog[i].directory = catalog[j].directory
               /\ LowerStr(catalog[i].extension)
                    = LowerStr(catalog[j].extension))
                => \E k \in DOMAIN ret.out :
                      /\ k[1] = catalog[i].directory
                      /\ k[2] = catalog[i].extension
                      /\ k[2] = catalog[j].extension

CatalogOps == {"scan_directory", "find_files", "get_path", "summary",
               "load_file"}

C14_FrameStep ==
    /\ root' = root
    /\ ret'.op \in CatalogOps => fs' = fs /\ dirs' = dirs
    /\ ret'.op \in {"get_path", "load_file"} => catalog' = catalog
    /\ ret'.op \in {"find_files", "summary"} =>
          IF catalog # <<>> THEN catalog' = catalog
          ELSE /\ fs' = fs /\ dirs' = dirs
               /\ TableIsScanOf(catalog', DefaultSubdirs, DefaultFileTypes)

\* C14: root keeps its value; get_path and load_file never change the
\* table; find_files and summary leave a non-empty table as it is and
\* replace an empty one by the result of a default scan; no catalog
\* operation changes the file system.
C14_Frame == [][C14_FrameStep]_vars

\* find_files answered from a non-empty table that still lists a file
\* which is gone from the file system: no scan was triggered
C14_Witness ==
    /\ ret.op = "find_files"
    /\ ~ret.was_empty
    /\ \E i \in 1..Len(catalog) :
          \A e \in fs : PathOf(e) # catalog[i].path

====
